---- MODULE Spec2Model ----
(***************************************************************************)
(* Campus Cleanliness Monitoring API (src/app.py).                         *)
(*                                                                         *)
(* Two HTTP endpoints share one MongoDB collection:                        *)
(*   detect_and_report  saves the uploaded image, classifies it and        *)
(*                      inserts one incident document;                     *)
(*   get_reports        runs four aggregation pipelines over the           *)
(*                      collection and returns the four derived views.     *)
(* One ingestion request and one report request may be in flight at the    *)
(* same time; their steps interleave at the granularity of the calls to    *)
(* the storage collaborator and to the file system.  The reachability of   *)
(* MongoDB and the server clock belong to the environment.                 *)
(*                                                                         *)
(* Numbers: a confidence is kept in tenths of a percent (850 stands for    *)
(* the double nearest to 85.0), the raw value 85 + random()*15 in          *)
(* hundredths (the double nearest to them); a datetime is a number of      *)
(* seconds since midnight of 1 January EpochYear.  A location, a file     *)
(* name and a path are sequences of Unicode code points.                   *)
(***************************************************************************)
EXTENDS Integers, Sequences, FiniteSets, TLC

VARIABLES
    mongoUp,               \* environment: MongoDB answers right now
    incidents_collection,  \* the global handle: None or the collection name
    collection,            \* the documents of CampusCleanlinessDB.incidents
    files,                 \* the paths present in evidence storage
    now,                   \* environment: datetime.now(), in seconds
    dpc,                   \* detect_and_report: position of the request
    has_image,             \* 'image' in request.files
    location_id,           \* detect_and_report local
    filepath,              \* detect_and_report local
    results,               \* detect_and_report local
    incident_id,           \* detect_and_report local
    dresponse,             \* detect_and_report: last response (status, body)
    created,               \* history: the 201 responses, in order
    rpc,                   \* get_reports: position of the request
    total_detections,      \* get_reports locals ...
    avg_confidence,
    total_alerts,
    detection_types,
    hourly_data,
    heatmap_data,
    heatmap_scores,
    rstatus,               \* get_reports: status of the last response
    passes,                \* history: collection size read by each pass so far
    home_status            \* home: status of the last response (0: none yet)

vars == <<mongoUp, incidents_collection, collection, files, now,
          dpc, has_image, location_id, filepath, results, incident_id,
          dresponse, created,
          rpc, total_detections, avg_confidence, total_alerts, detection_types,
          hourly_data, heatmap_data, heatmap_scores, rstatus, passes,
          home_status>>

envVars    == <<mongoUp, now>>
storeVars  == <<collection, files>>
detectVars == <<dpc, has_image, location_id, filepath, results, incident_id,
                dresponse, created>>
reportVars == <<rpc, total_detections, avg_confidence, total_alerts, detection_types,
                hourly_data, heatmap_data, heatmap_scores, rstatus, passes>>

---------------------------------------------------------------------------
(* Bounds of the model *)

MaxDocs  == 2      \* ingestion stops once the collection holds this many
MaxTicks == 1      \* seconds the clock may advance
MaxSeed  == 21     \* largest per-location count of a pre-existing collection

---------------------------------------------------------------------------
(* Configuration and fixed data *)

None == "None"
MONGO_COLLECTION_NAME == "incidents"
UPLOAD_FOLDER == "uploads"     \* the literal
NoValue == "<unset>"           \* a local not yet assigned

HoursPerDay == 24

\* run_ai_inference: the label list, in source order
types == <<"Litter Detected", "Overflowing Bin", "Spill Detected",
           "Scattered Trash", "Debris Found", "Graffiti">>

\* the $in list of the summary pipeline
AlertList == <<"Overflowing Bin", "Spill Detected", "Graffiti">>

\* values of the form field location_id tried by the model, as literals
FormLocations == {"Zone 1"}

\* value of 85 + random.random()*15 tried by the model, in hundredths: the
\* double nearest to 85.45 lies above it, and round(confidence, 1) gives 85.5
RawConfidences == {8545}

\* the clock starts one second before midnight, so that a tick changes the hour
StartTime == 23 * 3600 + 59 * 60 + 59

---------------------------------------------------------------------------
(* Helpers *)

Max(a, b) == IF a >= b THEN a ELSE b

Range(s) == {s[i] : i \in 1..Len(s)}

\* ---- IEEE-754 doubles --------------------------------------------------
\* The confidences are Python floats and BSON doubles.  A double is written
\* here as the decimal number it is nearest to, together with the side on
\* which it lies: -1 below the decimal, 0 equal to it, 1 above it.  All the
\* confidences of the program lie in [85, 100], inside the binade [64, 128)
\* whose doubles are the multiples of 2^-46.

RECURSIVE Pow2(_)
Pow2(j) == IF j = 0 THEN 1 ELSE 2 * Pow2(j - 1)

\* 2^j modulo md
RECURSIVE Pow2Mod(_, _)
Pow2Mod(j, md) == IF j = 0 THEN 1 % md ELSE (2 * Pow2Mod(j - 1, md)) % md

Sign(d) == IF d < 0 THEN -1 ELSE IF d > 0 THEN 1 ELSE 0

\* round-half-even, the rule of round() on an exact tie
HalfEven(q) == IF q % 2 = 0 THEN q ELSE q + 1

\* floor(log2(k/20)), the binary exponent of the value k/20
RECURSIVE Exponent(_)
Exponent(k) ==
    IF k >= 40 THEN Exponent(k \div 2) + 1
    ELSE IF k < 20 THEN Exponent(2 * k) - 1
    ELSE 0

\* the side of the double nearest to k/20 (k odd: a value whose second
\* decimal is 5).  With e the exponent, the doubles are the multiples of
\* 2^(e-52), and k/20 = (k * 2^(50-e) / 5) * 2^(e-52): the remainder of
\* k * 2^(50-e) modulo 5 tells which neighbour is nearest.
NearestSide(k) ==
    LET rem == ((k % 5) * Pow2Mod(50 - Exponent(k), 5)) % 5
    IN  IF rem = 0 THEN 0 ELSE IF rem <= 2 THEN -1 ELSE 1

\* round(x, 1) where x is the double nearest to c hundredths; result in
\* tenths.  Python rounds the exact value of the double: 85.35 is stored below
\* 85.35 and gives 85.3, 85.45 is stored above and gives 85.5, and only a
\* binary fraction (85.25, 85.75) is a tie, which goes to the even digit.
Round1(c) ==
    LET q == c \div 10
        r == c % 10
        side == NearestSide(2 * q + 1)
    IN  IF r < 5 THEN q
        ELSE IF r > 5 THEN q + 1
        ELSE IF side < 0 THEN q
        ELSE IF side > 0 THEN q + 1
        ELSE HalfEven(q)

\* what the double nearest to t tenths differs from t tenths by, in fifths of
\* 2^-46 (t tenths = t * 2^45 fifths, and the doubles are the multiples of 5)
DoubleError(t) ==
    LET rem == (2 * t) % 5
    IN  IF rem <= 2 THEN 0 - rem ELSE 5 - rem

\* the largest m >= m0 with 2^m <= sum tenths, given that 2^m0 <= sum tenths
RECURSIVE SumExponent(_, _)
SumExponent(sum, m) ==
    IF 10 * Pow2(m + 1) <= sum THEN SumExponent(sum, m + 1) ELSE m

\* the side of the double that $avg returns for confidences adding up to sum
\* tenths, n of them, whose doubles differ from the decimals by err fifths in
\* all.  $avg adds the doubles without loss, rounds the total to a double and
\* divides it by the count, which rounds again; each rounding is to the
\* nearest double, a tie going to the even mantissa.
AvgSide(sum, n, err) ==
    LET m0    == SumExponent(sum, 0)
        m     == IF sum = 10 * Pow2(m0) /\ err < 0 THEN m0 - 1 ELSE m0
        G     == 5 * Pow2(m - 6)                \* spacing of the doubles at the total
        R2    == (((sum % (2 * G)) * Pow2Mod(45, 2 * G)) + err) % (2 * G)
        R     == R2 % G
        up    == 2 * R > G \/ (2 * R = G /\ R2 >= G)
        W     == err + (IF up THEN G - R ELSE 0 - R)   \* rounded total - n * mean
        A2    == ((sum % (10 * n)) * Pow2Mod(45, 10 * n)) % (10 * n)
        A     == A2 % (5 * n)
        Z     == A + W
        k5    == Z \div (5 * n)
        rem   == Z - 5 * n * k5
        odd   == (A2 >= 5 * n) # (k5 % 2 # 0)
        up2   == 2 * rem > 5 * n \/ (2 * rem = 5 * n /\ odd)
    IN  Sign(5 * n * (IF up2 THEN k5 + 1 ELSE k5) - A)

\* round(avg_confidence_val, 1) of the double avg; result in tenths
RoundAvg(avg) ==
    LET q == avg.sum \div avg.count
        r == avg.sum % avg.count
    IN  IF 2 * r < avg.count THEN q
        ELSE IF 2 * r > avg.count THEN q + 1
        ELSE IF avg.side < 0 THEN q
        ELSE IF avg.side > 0 THEN q + 1
        ELSE HalfEven(q)

\* f"{round(v, 1)}%": the repr of the rounded float and a percent sign
Percent(tenths) == ToString(tenths \div 10) \o "." \o ToString(tenths % 10) \o "%"
ZeroPercent == "0%"

\* ---- datetime ----------------------------------------------------------
\* A datetime is the number of seconds since midnight of 1 January EpochYear.

EpochYear == 2026

IsLeap(y) == (y % 4 = 0 /\ y % 100 # 0) \/ y % 400 = 0

DaysInYear(y) == IF IsLeap(y) THEN 366 ELSE 365

DaysInMonth(y, mo) ==
    IF mo = 2 THEN (IF IsLeap(y) THEN 29 ELSE 28)
    ELSE IF mo \in {4, 6, 9, 11} THEN 30
    ELSE 31

\* <<year, day of the year from 0>>
RECURSIVE YearOf(_, _)
YearOf(y, d) ==
    IF d < DaysInYear(y) THEN <<y, d>> ELSE YearOf(y + 1, d - DaysInYear(y))

\* <<month, day of the month>>
RECURSIVE MonthOf(_, _, _)
MonthOf(y, mo, d) ==
    IF d < DaysInMonth(y, mo) THEN <<mo, d + 1>>
    ELSE MonthOf(y, mo + 1, d - DaysInMonth(y, mo))

\* %m, %d, %H, %M, %S: two digits
Pad2(v) == IF v < 10 THEN "0" \o ToString(v) ELSE ToString(v)

\* ---- strings -----------------------------------------------------------
\* A Python str is the sequence of its Unicode code points.

\* the characters 32..95 and 97..126, in order (96, the backquote, is left out)
PrintableLow == " !\"#$%&'()*+,-./0123456789:;<=>?@ABCDEFGHIJKLMNOPQRSTUVWXYZ[\\]^_"
PrintableHigh == "abcdefghijklmnopqrstuvwxyz{|}~"

\* ord(ch) of the printable ASCII characters
Ord ==
    [ch \in {SubSeq(PrintableLow, i, i) : i \in 1..Len(PrintableLow)}
            \cup {SubSeq(PrintableHigh, i, i) : i \in 1..Len(PrintableHigh)} |->
        IF \E i \in 1..Len(PrintableLow) : SubSeq(PrintableLow, i, i) = ch
        THEN 31 + (CHOOSE i \in 1..Len(PrintableLow) : SubSeq(PrintableLow, i, i) = ch)
        ELSE 96 + (CHOOSE i \in 1..Len(PrintableHigh) : SubSeq(PrintableHigh, i, i) = ch)]

Code(ch) == Ord[ch]

\* the str written as a literal of printable ASCII characters
Str(s) == [i \in 1..Len(s) |-> Code(SubSeq(s, i, i))]

\* the concatenation of parts[lo], ..., parts[hi]
RECURSIVE Concat(_, _, _)
Concat(parts, lo, hi) ==
    IF lo > hi THEN <<>>
    ELSE IF lo = hi THEN parts[lo]
    ELSE LET mid == (lo + hi) \div 2
         IN  Concat(parts, lo, mid) \o Concat(parts, mid + 1, hi)

\* datetime.strftime('%Y%m%d_%H%M%S')
Strftime(t) ==
    LET yd == YearOf(EpochYear, t \div 86400)
        md == MonthOf(yd[1], 1, yd[2])
    IN  Str(ToString(yd[1]) \o Pad2(md[1]) \o Pad2(md[2]) \o "_"
            \o Pad2((t \div 3600) % 24) \o Pad2((t \div 60) % 60) \o Pad2(t % 60))

\* variant: the hour of a 12-hour clock
Hour12(t) == (t \div 3600) % 12

\* MongoDB $hour
Hour(t) == (t \div 3600) % 24

\* ---- werkzeug.utils.secure_filename --------------------------------------

\* unicodedata.normalize("NFKD", ch).encode("ascii", "ignore") of the
\* characters from 128 on (Unicode 14.0): each entry is an ASCII image and the
\* code points that have it; a code point in no entry has the empty image
NfkdTable == {
    <<<<32>>, {160, 168, 175, 180, 184, 890, 900, 901, 8125, 8173, 8174,
        8189, 8190, 8215, 8239, 8254, 8287, 12288, 12443, 12444, 65019,
        65136, 65138, 65140, 65142, 65144, 65146, 65148, 65150, 65507} \cup
        (728..733) \cup (8127..8129) \cup (8141..8143) \cup (8157..8159)
        \cup (8192..8202) \cup (64606..64611) \cup (65097..65100)>>,
    <<<<32, 32, 32>>, {65018}>>,
    <<<<33>>, {65045, 65111, 65281}>>,
    <<<<33, 33>>, {8252}>>,
    <<<<33, 63>>, {8265}>>,
    <<<<34>>, {65282}>>,
    <<<<35>>, {65119, 65283}>>,
    <<<<36>>, {65129, 65284}>>,
    <<<<37>>, {65130, 65285}>>,
    <<<<38>>, {65120, 65286}>>,
    <<<<39>>, {65287}>>,
    <<<<40>>, {8317, 8333, 65077, 65113, 65288}>>,
    <<<<40, 41>>, (12800..12830) \cup (12832..12867)>>,
    <<<<40, 49, 41>>, {9332}>>,
    <<<<40, 49, 48, 41>>, {9341}>>,
    <<<<40, 49, 49, 41>>, {9342}>>,
    <<<<40, 49, 50, 41>>, {9343}>>,
    <<<<40, 49, 51, 41>>, {9344}>>,
    <<<<40, 49, 52, 41>>, {9345}>>,
    <<<<40, 49, 53, 41>>, {9346}>>,
    <<<<40, 49, 54, 41>>, {9347}>>,
    <<<<40, 49, 55, 41>>, {9348}>>,
    <<<<40, 49, 56, 41>>, {9349}>>,
    <<<<40, 49, 57, 41>>, {9350}>>,
    <<<<40, 50, 41>>, {9333}>>,
    <<<<40, 50, 48, 41>>, {9351}>>,
    <<<<40, 51, 41>>, {9334}>>,
    <<<<40, 52, 41>>, {9335}>>,
    <<<<40, 53, 41>>, {9336}>>,
    <<<<40, 54, 41>>, {9337}>>,
    <<<<40, 55, 41>>, {9338}>>,
    <<<<40, 56, 41>>, {9339}>>,
    <<<<40, 57, 41>>, {9340}>>,
    <<<<40, 65, 41>>, {127248}>>,
    <<<<40, 66, 41>>, {127249}>>,
    <<<<40, 67, 41>>, {127250}>>,
    <<<<40, 68, 41>>, {127251}>>,
    <<<<40, 69, 41>>, {127252}>>,
    <<<<40, 70, 41>>, {127253}>>,
    <<<<40, 71, 41>>, {127254}>>,
    <<<<40, 72, 41>>, {127255}>>,
    <<<<40, 73, 41>>, {127256}>>,
    <<<<40, 74, 41>>, {127257}>>,
    <<<<40, 75, 41>>, {127258}>>,
    <<<<40, 76, 41>>, {127259}>>,
    <<<<40, 77, 41>>, {127260}>>,
    <<<<40, 78, 41>>, {127261}>>,
    <<<<40, 79, 41>>, {127262}>>,
    <<<<40, 80, 41>>, {127263}>>,
    <<<<40, 81, 41>>, {127264}>>,
    <<<<40, 82, 41>>, {127265}>>,
    <<<<40, 83, 41>>, {127266}>>,
    <<<<40, 84, 41>>, {127267}>>,
    <<<<40, 85, 41>>, {127268}>>,
    <<<<40, 86, 41>>, {127269}>>,
    <<<<40, 87, 41>>, {127270}>>,
    <<<<40, 88, 41>>, {127271}>>,
    <<<<40, 89, 41>>, {127272}>>,
    <<<<40, 90, 41>>, {127273}>>,
    <<<<40, 97, 41>>, {9372}>>,
    <<<<40, 98, 41>>, {9373}>>,
    <<<<40, 99, 41>>, {9374}>>,
    <<<<40, 100, 41>>, {9375}>>,
    <<<<40, 101, 41>>, {9376}>>,
    <<<<40, 102, 41>>, {9377}>>,
    <<<<40, 103, 41>>, {9378}>>,
    <<<<40, 104, 41>>, {9379}>>,
    <<<<40, 105, 41>>, {9380}>>,
    <<<<40, 106, 41>>, {9381}>>,
    <<<<40, 107, 41>>, {9382}>>,
    <<<<40, 108, 41>>, {9383}>>,
    <<<<40, 109, 41>>, {9384}>>,
    <<<<40, 110, 41>>, {9385}>>,
    <<<<40, 111, 41>>, {9386}>>,
    <<<<40, 112, 41>>, {9387}>>,
    <<<<40, 113, 41>>, {9388}>>,
    <<<<40, 114, 41>>, {9389}>>,
    <<<<40, 115, 41>>, {9390}>>,
    <<<<40, 116, 41>>, {9391}>>,
    <<<<40, 117, 41>>, {9392}>>,
    <<<<40, 118, 41>>, {9393}>>,
    <<<<40, 119, 41>>, {9394}>>,
    <<<<40, 120, 41>>, {9395}>>,
    <<<<40, 121, 41>>, {9396}>>,
    <<<<40, 122, 41>>, {9397}>>,
    <<<<41>>, {8318, 8334, 65078, 65114, 65289}>>,
    <<<<42>>, {65121, 65290}>>,
    <<<<43>>, {8314, 8330, 64297, 65122, 65291}>>,
    <<<<44>>, {65040, 65104, 65292}>>,
    <<<<45>>, {65123, 65293}>>,
    <<<<46>>, {8228, 65106, 65294}>>,
    <<<<46, 46>>, {8229, 65072}>>,
    <<<<46, 46, 46>>, {8230, 65049}>>,
    <<<<47>>, {65295}>>,
    <<<<48>>, {8304, 8320, 9450, 13144, 65296, 120782, 120792, 120802,
        120812, 120822, 130032}>>,
    <<<<48, 44>>, {127233}>>,
    <<<<48, 46>>, {127232}>>,
    <<<<48, 51>>, {8585}>>,
    <<<<49>>, {185, 8321, 8543, 9312, 12992, 13145, 13280, 65297, 120783,
        120793, 120803, 120813, 120823, 130033}>>,
    <<<<49, 44>>, {127234}>>,
    <<<<49, 46>>, {9352}>>,
    <<<<49, 48>>, {9321, 13001, 13154, 13289}>>,
    <<<<49, 48, 46>>, {9361}>>,
    <<<<49, 49>>, {9322, 13002, 13155, 13290}>>,
    <<<<49, 49, 46>>, {9362}>>,
    <<<<49, 49, 48>>, {8530}>>,
    <<<<49, 50>>, {189, 9323, 13003, 13156, 13291}>>,
    <<<<49, 50, 46>>, {9363}>>,
    <<<<49, 51>>, {8531, 9324, 13157, 13292}>>,
    <<<<49, 51, 46>>, {9364}>>,
    <<<<49, 52>>, {188, 9325, 13158, 13293}>>,
    <<<<49, 52, 46>>, {9365}>>,
    <<<<49, 53>>, {8533, 9326, 13159, 13294}>>,
    <<<<49, 53, 46>>, {9366}>>,
    <<<<49, 54>>, {8537, 9327, 13160, 13295}>>,
    <<<<49, 54, 46>>, {9367}>>,
    <<<<49, 55>>, {8528, 9328, 13161, 13296}>>,
    <<<<49, 55, 46>>, {9368}>>,
    <<<<49, 56>>, {8539, 9329, 13162, 13297}>>,
    <<<<49, 56, 46>>, {9369}>>,
    <<<<49, 57>>, {8529, 9330, 13163, 13298}>>,
    <<<<49, 57, 46>>, {9370}>>,
    <<<<50>>, {178, 8322, 9313, 12993, 13146, 13281, 65298, 120784, 120794,
        120804, 120814, 120824, 130034}>>,
    <<<<50, 44>>, {127235}>>,
    <<<<50, 46>>, {9353}>>,
    <<<<50, 48>>, {9331, 13164, 13299}>>,
    <<<<50, 48, 46>>, {9371}>>,
    <<<<50, 49>>, {12881, 13165, 13300}>>,
    <<<<50, 50>>, {12882, 13166, 13301}>>,
    <<<<50, 51>>, {8532, 12883, 13167, 13302}>>,
    <<<<50, 52>>, {12884, 13168, 13303}>>,
    <<<<50, 53>>, {8534, 12885, 13304}>>,
    <<<<50, 54>>, {12886, 13305}>>,
    <<<<50, 55>>, {12887, 13306}>>,
    <<<<50, 56>>, {12888, 13307}>>,
    <<<<50, 57>>, {12889, 13308}>>,
    <<<<51>>, {179, 8323, 9314, 12994, 13147, 13282, 65299, 120785, 120795,
        120805, 120815, 120825, 130035}>>,
    <<<<51, 44>>, {127236}>>,
    <<<<51, 46>>, {9354}>>,
    <<<<51, 48>>, {12890, 13309}>>,
    <<<<51, 49>>, {12891, 13310}>>,
    <<<<51, 50>>, {12892}>>,
    <<<<51, 51>>, {12893}>>,
    <<<<51, 52>>, {190, 12894}>>,
    <<<<51, 53>>, {8535, 12895}>>,
    <<<<51, 54>>, {12977}>>,
    <<<<51, 55>>, {12978}>>,
    <<<<51, 56>>, {8540, 12979}>>,
    <<<<51, 57>>, {12980}>>,
    <<<<52>>, {8308, 8324, 9315, 12995, 13148, 13283, 65300, 120786, 120796,
        120806, 120816, 120826, 130036}>>,
    <<<<52, 44>>, {127237}>>,
    <<<<52, 46>>, {9355}>>,
    <<<<52, 48>>, {12981}>>,
    <<<<52, 49>>, {12982}>>,
    <<<<52, 50>>, {12983}>>,
    <<<<52, 51>>, {12984}>>,
    <<<<52, 52>>, {12985}>>,
    <<<<52, 53>>, {8536, 12986}>>,
    <<<<52, 54>>, {12987}>>,
    <<<<52, 55>>, {12988}>>,
    <<<<52, 56>>, {12989}>>,
    <<<<52, 57>>, {12990}>>,
    <<<<53>>, {8309, 8325, 9316, 12996, 13149, 13284, 65301, 120787, 120797,
        120807, 120817, 120827, 130037}>>,
    <<<<53, 44>>, {127238}>>,
    <<<<53, 46>>, {9356}>>,
    <<<<53, 48>>, {12991}>>,
    <<<<53, 54>>, {8538}>>,
    <<<<53, 56>>, {8541}>>,
    <<<<54>>, {8310, 8326, 9317, 12997, 13150, 13285, 65302, 120788, 120798,
        120808, 120818, 120828, 130038}>>,
    <<<<54, 44>>, {127239}>>,
    <<<<54, 46>>, {9357}>>,
    <<<<55>>, {8311, 8327, 9318, 12998, 13151, 13286, 65303, 120789, 120799,
        120809, 120819, 120829, 130039}>>,
    <<<<55, 44>>, {127240}>>,
    <<<<55, 46>>, {9358}>>,
    <<<<55, 56>>, {8542}>>,
    <<<<56>>, {8312, 8328, 9319, 12999, 13152, 13287, 65304, 120790, 120800,
        120810, 120820, 120830, 130040}>>,
    <<<<56, 44>>, {127241}>>,
    <<<<56, 46>>, {9359}>>,
    <<<<57>>, {8313, 8329, 9320, 13000, 13153, 13288, 65305, 120791, 120801,
        120811, 120821, 120831, 130041}>>,
    <<<<57, 44>>, {127242}>>,
    <<<<57, 46>>, {9360}>>,
    <<<<58>>, {65043, 65109, 65306}>>,
    <<<<58, 58, 61>>, {10868}>>,
    <<<<59>>, {894, 65044, 65108, 65307}>>,
    <<<<60>>, {8814, 65124, 65308}>>,
    <<<<61>>, {8316, 8332, 8800, 65126, 65309}>>,
    <<<<61, 61>>, {10869}>>,
    <<<<61, 61, 61>>, {10870}>>,
    <<<<62>>, {8815, 65125, 65310}>>,
    <<<<63>>, {65046, 65110, 65311}>>,
    <<<<63, 33>>, {8264}>>,
    <<<<63, 63>>, {8263}>>,
    <<<<64>>, {65131, 65312}>>,
    <<<<65>>, {256, 258, 260, 461, 478, 480, 506, 512, 514, 550, 7468, 7680,
        7840, 7842, 7844, 7846, 7848, 7850, 7852, 7854, 7856, 7858, 7860,
        7862, 8491, 9398, 13186, 65313, 119808, 119860, 119912, 119964,
        120016, 120068, 120120, 120172, 120224, 120276, 120328, 120380,
        120432, 127280} \cup (192..197)>>,
    <<<<65, 85>>, {13171}>>,
    <<<<65, 109>>, {13279}>>,
    <<<<66>>, {7470, 7682, 7684, 7686, 8492, 9399, 65314, 119809, 119861,
        119913, 120017, 120069, 120121, 120173, 120225, 120277, 120329,
        120381, 120433, 127281}>>,
    <<<<66, 113>>, {13251}>>,
    <<<<67>>, {199, 262, 264, 266, 268, 7688, 8450, 8451, 8493, 8557, 9400,
        42994, 65315, 119810, 119862, 119914, 119966, 120018, 120174,
        120226, 120278, 120330, 120382, 120434, 127275, 127282}>>,
    <<<<67, 68>>, {127277}>>,
    <<<<67, 107, 103>>, {13254}>>,
    <<<<67, 111, 46>>, {13255}>>,
    <<<<68>>, {270, 7472, 7690, 7692, 7694, 7696, 7698, 8517, 8558, 9401,
        65316, 119811, 119863, 119915, 119967, 120019, 120071, 120123,
        120175, 120227, 120279, 120331, 120383, 120435, 127283}>>,
    <<<<68, 74>>, {127376}>>,
    <<<<68, 90>>, {452, 497}>>,
    <<<<68, 122>>, {453, 498}>>,
    <<<<69>>, {274, 276, 278, 280, 282, 516, 518, 552, 7473, 7700, 7702,
        7704, 7706, 7708, 7864, 7866, 7868, 7870, 7872, 7874, 7876, 7878,
        8496, 9402, 65317, 119812, 119864, 119916, 120020, 120072, 120124,
        120176, 120228, 120280, 120332, 120384, 120436, 127284} \cup
        (200..203)>>,
    <<<<70>>, {7710, 8457, 8497, 9403, 13196, 42995, 65318, 119813, 119865,
        119917, 120021, 120073, 120125, 120177, 120229, 120281, 120333,
        120385, 120437, 127285}>>,
    <<<<70, 65, 88>>, {8507}>>,
    <<<<71>>, {284, 286, 288, 290, 486, 500, 7475, 7712, 9404, 65319,
        119814, 119866, 119918, 119970, 120022, 120074, 120126, 120178,
        120230, 120282, 120334, 120386, 120438, 127286}>>,
    <<<<71, 66>>, {13191}>>,
    <<<<71, 72, 122>>, {13203}>>,
    <<<<71, 80, 97>>, {13228}>>,
    <<<<71, 121>>, {13257}>>,
    <<<<72>>, {292, 542, 7476, 7714, 7716, 7718, 7720, 7722, 9405, 65320,
        119815, 119867, 119919, 120023, 120179, 120231, 120283, 120335,
        120387, 120439, 127287} \cup (8459..8461)>>,
    <<<<72, 80>>, {13259}>>,
    <<<<72, 86>>, {127306}>>,
    <<<<72, 103>>, {13004}>>,
    <<<<72, 122>>, {13200}>>,
    <<<<73>>, {296, 298, 300, 302, 304, 463, 520, 522, 7477, 7724, 7726,
        7880, 7882, 8464, 8465, 8544, 9406, 65321, 119816, 119868, 119920,
        120024, 120128, 120180, 120232, 120284, 120336, 120388, 120440,
        127288} \cup (204..207)>>,
    <<<<73, 73>>, {8545}>>,
    <<<<73, 73, 73>>, {8546}>>,
    <<<<73, 74>>, {306}>>,
    <<<<73, 85>>, {13178}>>,
    <<<<73, 86>>, {8547}>>,
    <<<<73, 88>>, {8552}>>,
    <<<<74>>, {308, 7478, 9407, 65322, 119817, 119869, 119921, 119973,
        120025, 120077, 120129, 120181, 120233, 120285, 120337, 120389,
        120441, 127289}>>,
    <<<<75>>, {310, 488, 7479, 7728, 7730, 7732, 8490, 9408, 65323, 119818,
        119870, 119922, 119974, 120026, 120078, 120130, 120182, 120234,
        120286, 120338, 120390, 120442, 127290}>>,
    <<<<75, 66>>, {13189}>>,
    <<<<75, 75>>, {13261}>>,
    <<<<75, 77>>, {13262}>>,
    <<<<76>>, {313, 315, 317, 319, 7480, 7734, 7736, 7738, 7740, 8466, 8556,
        9409, 65324, 119819, 119871, 119923, 120027, 120079, 120131, 120183,
        120235, 120287, 120339, 120391, 120443, 127291}>>,
    <<<<76, 74>>, {455}>>,
    <<<<76, 84, 68>>, {13007}>>,
    <<<<76, 106>>, {456}>>,
    <<<<77>>, {7481, 7742, 7744, 7746, 8499, 8559, 9410, 13249, 65325,
        119820, 119872, 119924, 120028, 120080, 120132, 120184, 120236,
        120288, 120340, 120392, 120444, 127292}>>,
    <<<<77, 66>>, {13190}>>,
    <<<<77, 67>>, {127338}>>,
    <<<<77, 68>>, {127339}>>,
    <<<<77, 72, 122>>, {13202}>>,
    <<<<77, 80, 97>>, {13227}>>,
    <<<<77, 82>>, {127340}>>,
    <<<<77, 86>>, {13241, 127307}>>,
    <<<<77, 87>>, {13247}>>,
    <<<<78>>, {209, 323, 325, 327, 504, 7482, 7748, 7750, 7752, 7754, 8469,
        9411, 65326, 119821, 119873, 119925, 119977, 120029, 120081, 120185,
        120237, 120289, 120341, 120393, 120445, 127293}>>,
    <<<<78, 74>>, {458}>>,
    <<<<78, 106>>, {459}>>,
    <<<<78, 111>>, {8470}>>,
    <<<<79>>, {332, 334, 336, 416, 465, 490, 492, 524, 526, 554, 556, 558,
        560, 7484, 7756, 7758, 7760, 7762, 7884, 7886, 7888, 7890, 7892,
        7894, 7896, 7898, 7900, 7902, 7904, 7906, 9412, 65327, 119822,
        119874, 119926, 119978, 120030, 120082, 120134, 120186, 120238,
        120290, 120342, 120394, 120446, 127294} \cup (210..214)>>,
    <<<<80>>, {7486, 7764, 7766, 8473, 9413, 65328, 119823, 119875, 119927,
        119979, 120031, 120083, 120187, 120239, 120291, 120343, 120395,
        120447, 127295}>>,
    <<<<80, 72>>, {13271}>>,
    <<<<80, 80, 77>>, {13273}>>,
    <<<<80, 80, 86>>, {127310}>>,
    <<<<80, 82>>, {13274}>>,
    <<<<80, 84, 69>>, {12880}>>,
    <<<<80, 97>>, {13225}>>,
    <<<<81>>, {8474, 9414, 42996, 65329, 119824, 119876, 119928, 119980,
        120032, 120084, 120188, 120240, 120292, 120344, 120396, 120448,
        127296}>>,
    <<<<82>>, {340, 342, 344, 528, 530, 7487, 7768, 7770, 7772, 7774, 9415,
        65330, 119825, 119877, 119929, 120033, 120189, 120241, 120293,
        120345, 120397, 120449, 127276, 127297} \cup (8475..8477)>>,
    <<<<82, 115>>, {8360}>>,
    <<<<83>>, {346, 348, 350, 352, 536, 7776, 7778, 7780, 7782, 7784, 9416,
        65331, 119826, 119878, 119930, 119982, 120034, 120086, 120138,
        120190, 120242, 120294, 120346, 120398, 120450, 127274, 127298}>>,
    <<<<83, 68>>, {127308}>>,
    <<<<83, 77>>, {8480}>>,
    <<<<83, 83>>, {127309}>>,
    <<<<83, 118>>, {13276}>>,
    <<<<84>>, {354, 356, 538, 7488, 7786, 7788, 7790, 7792, 9417, 65332,
        119827, 119879, 119931, 119983, 120035, 120087, 120139, 120191,
        120243, 120295, 120347, 120399, 120451, 127299}>>,
    <<<<84, 69, 76>>, {8481}>>,
    <<<<84, 72, 122>>, {13204}>>,
    <<<<84, 77>>, {8482}>>,
    <<<<85>>, {360, 362, 364, 366, 368, 370, 431, 467, 469, 471, 473, 475,
        532, 534, 7489, 7794, 7796, 7798, 7800, 7802, 7908, 7910, 7912,
        7914, 7916, 7918, 7920, 9418, 65333, 119828, 119880, 119932, 119984,
        120036, 120088, 120140, 120192, 120244, 120296, 120348, 120400,
        120452, 127300} \cup (217..220)>>,
    <<<<86>>, {7804, 7806, 8548, 9419, 11389, 13238, 65334, 119829, 119881,
        119933, 119985, 120037, 120089, 120141, 120193, 120245, 120297,
        120349, 120401, 120453, 127301}>>,
    <<<<86, 73>>, {8549}>>,
    <<<<86, 73, 73>>, {8550}>>,
    <<<<86, 73, 73, 73>>, {8551}>>,
    <<<<86, 109>>, {13278}>>,
    <<<<87>>, {372, 7490, 7808, 7810, 7812, 7814, 7816, 9420, 13244, 65335,
        119830, 119882, 119934, 119986, 120038, 120090, 120142, 120194,
        120246, 120298, 120350, 120402, 120454, 127302}>>,
    <<<<87, 67>>, {127311}>>,
    <<<<87, 90>>, {127278}>>,
    <<<<87, 98>>, {13277}>>,
    <<<<88>>, {7818, 7820, 8553, 9421, 65336, 119831, 119883, 119935,
        119987, 120039, 120091, 120143, 120195, 120247, 120299, 120351,
        120403, 120455, 127303}>>,
    <<<<88, 73>>, {8554}>>,
    <<<<88, 73, 73>>, {8555}>>,
    <<<<89>>, {221, 374, 376, 562, 7822, 7922, 7924, 7926, 7928, 9422,
        65337, 119832, 119884, 119936, 119988, 120040, 120092, 120144,
        120196, 120248, 120300, 120352, 120404, 120456, 127304}>>,
    <<<<90>>, {377, 379, 381, 7824, 7826, 7828, 8484, 8488, 9423, 65338,
        119833, 119885, 119937, 119989, 120041, 120197, 120249, 120301,
        120353, 120405, 120457, 127305}>>,
    <<<<91>>, {65095, 65339}>>,
    <<<<92>>, {65128, 65340}>>,
    <<<<93>>, {65096, 65341}>>,
    <<<<94>>, {65342}>>,
    <<<<95>>, {65075, 65076, 65343} \cup (65101..65103)>>,
    <<<<96>>, {8175, 65344}>>,
    <<<<97>>, {170, 257, 259, 261, 462, 479, 481, 507, 513, 515, 551, 7491,
        7681, 7834, 7841, 7843, 7845, 7847, 7849, 7851, 7853, 7855, 7857,
        7859, 7861, 7863, 8336, 9424, 65345, 119834, 119886, 119938, 119990,
        120042, 120094, 120146, 120198, 120250, 120302, 120354, 120406,
        120458} \cup (224..229)>>,
    <<<<97, 46, 109, 46>>, {13250}>>,
    <<<<97, 47, 99>>, {8448}>>,
    <<<<97, 47, 115>>, {8449}>>,
    <<<<98>>, {7495, 7683, 7685, 7687, 9425, 65346, 119835, 119887, 119939,
        119991, 120043, 120095, 120147, 120199, 120251, 120303, 120355,
        120407, 120459}>>,
    <<<<98, 97, 114>>, {13172}>>,
    <<<<99>>, {231, 263, 265, 267, 269, 7580, 7689, 8573, 9426, 65347,
        119836, 119888, 119940, 119992, 120044, 120096, 120148, 120200,
        120252, 120304, 120356, 120408, 120460}>>,
    <<<<99, 47, 111>>, {8453}>>,
    <<<<99, 47, 117>>, {8454}>>,
    <<<<99, 97, 108>>, {13192}>>,
    <<<<99, 99>>, {13252}>>,
    <<<<99, 100>>, {13253}>>,
    <<<<99, 109>>, {13213}>>,
    <<<<99, 109, 50>>, {13216}>>,
    <<<<99, 109, 51>>, {13220}>>,
    <<<<100>>, {271, 7496, 7691, 7693, 7695, 7697, 7699, 8518, 8574, 9427,
        65348, 119837, 119889, 119941, 119993, 120045, 120097, 120149,
        120201, 120253, 120305, 120357, 120409, 120461}>>,
    <<<<100, 66>>, {13256}>>,
    <<<<100, 97>>, {13170}>>,
    <<<<100, 108>>, {13207}>>,
    <<<<100, 109>>, {13175}>>,
    <<<<100, 109, 50>>, {13176}>>,
    <<<<100, 109, 51>>, {13177}>>,
    <<<<100, 122>>, {454, 499}>>,
    <<<<101>>, {275, 277, 279, 281, 283, 517, 519, 553, 7497, 7701, 7703,
        7705, 7707, 7709, 7865, 7867, 7869, 7871, 7873, 7875, 7877, 7879,
        8337, 8495, 8519, 9428, 65349, 119838, 119890, 119942, 120046,
        120098, 120150, 120202, 120254, 120306, 120358, 120410, 120462} \cup
        (232..235)>>,
    <<<<101, 86>>, {13006}>>,
    <<<<101, 114, 103>>, {13005}>>,
    <<<<102>>, {7584, 7711, 9429, 65350, 119839, 119891, 119943, 119995,
        120047, 120099, 120151, 120203, 120255, 120307, 120359, 120411,
        120463}>>,
    <<<<102, 102>>, {64256}>>,
    <<<<102, 102, 105>>, {64259}>>,
    <<<<102, 102, 108>>, {64260}>>,
    <<<<102, 105>>, {64257}>>,
    <<<<102, 108>>, {64258}>>,
    <<<<102, 109>>, {13209}>>,
    <<<<103>>, {285, 287, 289, 291, 487, 501, 7501, 7713, 8458, 9430, 13197,
        65351, 119840, 119892, 119944, 120048, 120100, 120152, 120204,
        120256, 120308, 120360, 120412, 120464}>>,
    <<<<103, 97, 108>>, {13311}>>,
    <<<<104>>, {293, 543, 688, 7715, 7717, 7719, 7721, 7723, 7830, 8341,
        8462, 9431, 65352, 119841, 119945, 119997, 120049, 120101, 120153,
        120205, 120257, 120309, 120361, 120413, 120465}>>,
    <<<<104, 80, 97>>, {13169}>>,
    <<<<104, 97>>, {13258}>>,
    <<<<105>>, {297, 299, 301, 303, 464, 521, 523, 7522, 7725, 7727, 7881,
        7883, 8305, 8505, 8520, 8560, 9432, 65353, 119842, 119894, 119946,
        119998, 120050, 120102, 120154, 120206, 120258, 120310, 120362,
        120414, 120466} \cup (236..239)>>,
    <<<<105, 105>>, {8561}>>,
    <<<<105, 105, 105>>, {8562}>>,
    <<<<105, 106>>, {307}>>,
    <<<<105, 110>>, {13260}>>,
    <<<<105, 118>>, {8563}>>,
    <<<<105, 120>>, {8568}>>,
    <<<<106>>, {309, 496, 690, 8521, 9433, 11388, 65354, 119843, 119895,
        119947, 119999, 120051, 120103, 120155, 120207, 120259, 120311,
        120363, 120415, 120467}>>,
    <<<<107>>, {311, 489, 7503, 7729, 7731, 7733, 8342, 9434, 13248, 65355,
        119844, 119896, 119948, 120000, 120052, 120104, 120156, 120208,
        120260, 120312, 120364, 120416, 120468}>>,
    <<<<107, 65>>, {13188}>>,
    <<<<107, 72, 122>>, {13201}>>,
    <<<<107, 80, 97>>, {13226}>>,
    <<<<107, 86>>, {13240}>>,
    <<<<107, 87>>, {13246}>>,
    <<<<107, 99, 97, 108>>, {13193}>>,
    <<<<107, 103>>, {13199}>>,
    <<<<107, 108>>, {13208}>>,
    <<<<107, 109>>, {13214}>>,
    <<<<107, 109, 50>>, {13218}>>,
    <<<<107, 109, 51>>, {13222}>>,
    <<<<107, 116>>, {13263}>>,
    <<<<108>>, {314, 316, 318, 320, 737, 7735, 7737, 7739, 7741, 8343, 8467,
        8572, 9435, 13205, 65356, 119845, 119897, 119949, 120001, 120053,
        120105, 120157, 120209, 120261, 120313, 120365, 120417, 120469}>>,
    <<<<108, 106>>, {457}>>,
    <<<<108, 109>>, {13264}>>,
    <<<<108, 110>>, {13265}>>,
    <<<<108, 111, 103>>, {13266}>>,
    <<<<108, 120>>, {13267}>>,
    <<<<109>>, {7504, 7743, 7745, 7747, 8344, 8575, 9436, 13211, 65357,
        119846, 119898, 119950, 120002, 120054, 120106, 120158, 120210,
        120262, 120314, 120366, 120418, 120470}>>,
    <<<<109, 50>>, {13217}>>,
    <<<<109, 51>>, {13221}>>,
    <<<<109, 65>>, {13187}>>,
    <<<<109, 86>>, {13239}>>,
    <<<<109, 87>>, {13245}>>,
    <<<<109, 98>>, {13268}>>,
    <<<<109, 103>>, {13198}>>,
    <<<<109, 105, 108>>, {13269}>>,
    <<<<109, 108>>, {13206}>>,
    <<<<109, 109>>, {13212}>>,
    <<<<109, 109, 50>>, {13215}>>,
    <<<<109, 109, 51>>, {13219}>>,
    <<<<109, 111, 108>>, {13270}>>,
    <<<<109, 115>>, {13223, 13235}>>,
    <<<<109, 115, 50>>, {13224}>>,
    <<<<110>>, {241, 324, 326, 328, 329, 505, 7749, 7751, 7753, 7755, 8319,
        8345, 9437, 65358, 119847, 119899, 119951, 120003, 120055, 120107,
        120159, 120211, 120263, 120315, 120367, 120419, 120471}>>,
    <<<<110, 65>>, {13185}>>,
    <<<<110, 70>>, {13195}>>,
    <<<<110, 86>>, {13237}>>,
    <<<<110, 87>>, {13243}>>,
    <<<<110, 106>>, {460}>>,
    <<<<110, 109>>, {13210}>>,
    <<<<110, 115>>, {13233}>>,
    <<<<111>>, {186, 333, 335, 337, 417, 466, 491, 493, 525, 527, 555, 557,
        559, 561, 7506, 7757, 7759, 7761, 7763, 7885, 7887, 7889, 7891,
        7893, 7895, 7897, 7899, 7901, 7903, 7905, 7907, 8338, 8500, 9438,
        65359, 119848, 119900, 119952, 120056, 120108, 120160, 120212,
        120264, 120316, 120368, 120420, 120472} \cup (242..246)>>,
    <<<<111, 86>>, {13173}>>,
    <<<<112>>, {7510, 7765, 7767, 8346, 9439, 65360, 119849, 119901, 119953,
        120005, 120057, 120109, 120161, 120213, 120265, 120317, 120369,
        120421, 120473}>>,
    <<<<112, 46, 109, 46>>, {13272}>>,
    <<<<112, 65>>, {13184}>>,
    <<<<112, 70>>, {13194}>>,
    <<<<112, 86>>, {13236}>>,
    <<<<112, 87>>, {13242}>>,
    <<<<112, 99>>, {13174}>>,
    <<<<112, 115>>, {13232}>>,
    <<<<113>>, {9440, 65361, 67493, 119850, 119902, 119954, 120006, 120058,
        120110, 120162, 120214, 120266, 120318, 120370, 120422, 120474}>>,
    <<<<114>>, {341, 343, 345, 529, 531, 691, 7523, 7769, 7771, 7773, 7775,
        9441, 65362, 119851, 119903, 119955, 120007, 120059, 120111, 120163,
        120215, 120267, 120319, 120371, 120423, 120475}>>,
    <<<<114, 97, 100>>, {13229}>>,
    <<<<114, 97, 100, 115>>, {13230}>>,
    <<<<114, 97, 100, 115, 50>>, {13231}>>,
    <<<<115>>, {347, 349, 351, 353, 383, 537, 738, 7777, 7779, 7781, 7783,
        7785, 7835, 8347, 9442, 13234, 65363, 119852, 119904, 119956,
        120008, 120060, 120112, 120164, 120216, 120268, 120320, 120372,
        120424, 120476}>>,
    <<<<115, 114>>, {13275}>>,
    <<<<115, 116>>, {64261, 64262}>>,
    <<<<116>>, {355, 357, 539, 7511, 7787, 7789, 7791, 7793, 7831, 8348,
        9443, 65364, 119853, 119905, 119957, 120009, 120061, 120113, 120165,
        120217, 120269, 120321, 120373, 120425, 120477}>>,
    <<<<117>>, {361, 363, 365, 367, 369, 371, 432, 468, 470, 472, 474, 476,
        533, 535, 7512, 7524, 7795, 7797, 7799, 7801, 7803, 7909, 7911,
        7913, 7915, 7917, 7919, 7921, 9444, 65365, 119854, 119906, 119958,
        120010, 120062, 120114, 120166, 120218, 120270, 120322, 120374,
        120426, 120478} \cup (249..252)>>,
    <<<<118>>, {7515, 7525, 7805, 7807, 8564, 9445, 65366, 119855, 119907,
        119959, 120011, 120063, 120115, 120167, 120219, 120271, 120323,
        120375, 120427, 120479}>>,
    <<<<118, 105>>, {8565}>>,
    <<<<118, 105, 105>>, {8566}>>,
    <<<<118, 105, 105, 105>>, {8567}>>,
    <<<<119>>, {373, 695, 7809, 7811, 7813, 7815, 7817, 7832, 9446, 65367,
        119856, 119908, 119960, 120012, 120064, 120116, 120168, 120220,
        120272, 120324, 120376, 120428, 120480}>>,
    <<<<120>>, {739, 7819, 7821, 8339, 8569, 9447, 65368, 119857, 119909,
        119961, 120013, 120065, 120117, 120169, 120221, 120273, 120325,
        120377, 120429, 120481}>>,
    <<<<120, 105>>, {8570}>>,
    <<<<120, 105, 105>>, {8571}>>,
    <<<<121>>, {253, 255, 375, 563, 696, 7823, 7833, 7923, 7925, 7927, 7929,
        9448, 65369, 119858, 119910, 119962, 120014, 120066, 120118, 120170,
        120222, 120274, 120326, 120378, 120430, 120482}>>,
    <<<<122>>, {378, 380, 382, 7611, 7825, 7827, 7829, 9449, 65370, 119859,
        119911, 119963, 120015, 120067, 120119, 120171, 120223, 120275,
        120327, 120379, 120431, 120483}>>,
    <<<<123>>, {65079, 65115, 65371}>>,
    <<<<124>>, {65372}>>,
    <<<<125>>, {65080, 65116, 65373}>>,
    <<<<126>>, {65374}>> }
NfkdAscii ==
    [c \in UNION {e[2] : e \in NfkdTable} |-> (CHOOSE e \in NfkdTable : c \in e[2])[1]]

\* the image of one character: the 128 ASCII characters stay
AsciiOf(c) ==
    IF c < 128 THEN <<c>>
    ELSE IF c \in DOMAIN NfkdAscii THEN NfkdAscii[c]
    ELSE <<>>

\* unicodedata.normalize("NFKD", filename).encode("ascii", "ignore")
Normalize(s) == Concat([i \in 1..Len(s) |-> AsciiOf(s[i])], 1, Len(s))

\* os.sep, and the blank that takes its place
Sep == Code("/")
Blank == Code(" ")

\* filename.replace(os.sep, " "); os.path.altsep is None
ReplaceSep(s) == [i \in 1..Len(s) |-> IF s[i] = Sep THEN Blank ELSE s[i]]

\* what str.split() splits an ASCII str at: \t \n \v \f \r, 28..31 and the blank
Whitespace == {9, 10, 11, 12, 13, 28, 29, 30, 31, 32}

Underscore == Str("_")

\* "_".join(filename.split()): every other character stays; a run of
\* whitespace between two words leaves one "_", a run at either end nothing
JoinWords(s) ==
    Concat([i \in 1..Len(s) |->
              IF s[i] \notin Whitespace THEN <<s[i]>>
              ELSE IF /\ i > 1
                      /\ s[i - 1] \notin Whitespace
                      /\ \E j \in (i + 1)..Len(s) : s[j] \notin Whitespace
                   THEN Underscore
              ELSE <<>>],
           1, Len(s))

\* the characters that _filename_ascii_strip_re leaves: [A-Za-z0-9_.-]
FilenameChars ==
    Range(Str("ABCDEFGHIJKLMNOPQRSTUVWXYZ")) \cup Range(Str("abcdefghijklmnopqrstuvwxyz"))
        \cup Range(Str("0123456789")) \cup Range(Str("_.-"))

IsFilenameChar(c) == c \in FilenameChars

\* _filename_ascii_strip_re.sub("", s)
AsciiStrip(s) == SelectSeq(s, IsFilenameChar)

StripChars == Range(Str("._"))

\* s.strip("._")
Strip(s) ==
    LET kept == {i \in 1..Len(s) : s[i] \notin StripChars}
    IN  IF kept = {} THEN <<>>
        ELSE SubSeq(s, CHOOSE i \in kept : \A j \in kept : i <= j,
                       CHOOSE i \in kept : \A j \in kept : i >= j)

\* secure_filename, as it runs where os.name is not "nt"
secure_filename(filename) ==
    Strip(AsciiStrip(JoinWords(ReplaceSep(Normalize(filename)))))

Extension == Str(".jpg")

\* secure_filename(f"{location_id}_{stamp}.jpg")
Filename(loc, t) == secure_filename(loc \o Underscore \o Strftime(t) \o Extension)

\* app.config['UPLOAD_FOLDER']
UploadFolder == Str(UPLOAD_FOLDER)

\* os.path.join(app.config['UPLOAD_FOLDER'], filename)
PathJoin(dir, name) ==
    IF name # <<>> /\ name[1] = Sep THEN name
    ELSE IF dir = <<>> \/ dir[Len(dir)] = Sep THEN dir \o name
    ELSE dir \o <<Sep>> \o name

\* the longest file name the file system takes, in bytes: open() raises
\* OSError (File name too long) beyond it
NAME_MAX == 255

---------------------------------------------------------------------------
(* Storage set-up and classification *)

\* get_mongo_collection: the handle when the ping succeeds, None otherwise
get_mongo_collection(ping) ==
    IF ping THEN MONGO_COLLECTION_NAME ELSE None

\* run_ai_inference, with random.choice giving types[i] and the raw
\* confidence being raw hundredths
run_ai_inference(i, raw) ==
    LET detection_type == types[i]
    IN  [detection_type |-> detection_type,
         confidence     |-> Round1(raw),
         is_alert       |-> (detection_type = "Overflowing Bin"
                             \/ detection_type = "Spill Detected"
                             \/ detection_type = "Graffiti")]

\* variant: the image is checked before the handle
DetectGuardImageFirst(handle, image) ==
    IF ~image THEN 400
    ELSE IF handle = None THEN 503
    ELSE 0

\* the early returns of detect_and_report: 0 when the request goes on
DetectGuard(handle, image) ==
    IF handle = None THEN 503
    ELSE IF ~image THEN 400
    ELSE 0

\* variant: get_reports does not look at the handle
ReportGuardMissing(handle) == 0

\* the early return of get_reports: 0 when the request goes on
ReportGuard(handle) ==
    IF handle = None THEN 503 ELSE 0

\* the values that the form holds under location_id: none, one of the
\* literals, or letters that make the file name one byte longer than the file
\* system takes
FormValues ==
    {<<>>} \cup {<<Str(loc)>> : loc \in FormLocations}
           \cup {<<[i \in 1..(NAME_MAX + 1 - Len("_20260101_235959.jpg")) |-> Code("L")]>>}

\* request.form.get('location_id', 'Unknown Zone'), values being the values
\* that the form holds under the key
UnknownZone == Str("Unknown Zone")

FormGet(values) == IF values = <<>> THEN UnknownZone ELSE values[1]

\* variant: evidence_path holds the file name without the upload folder
IncidentDocFilenameOnly(res, loc, t, path) ==
    [detection_type |-> res.detection_type,
     confidence     |-> res.confidence,
     location_id    |-> loc,
     timestamp      |-> t,
     status         |-> "Unresolved",
     evidence_path  |-> SubSeq(path, Len(UPLOAD_FOLDER) + 2, Len(path))]

\* the incident_doc literal of detect_and_report
IncidentDoc(res, loc, t, path) ==
    [detection_type |-> res.detection_type,
     confidence     |-> res.confidence,
     location_id    |-> loc,
     timestamp      |-> t,
     status         |-> "Unresolved",
     evidence_path  |-> path]

\* variant: an upsert keyed by evidence_path, which replaces the document
\* that has the same path
InsertOneUpsert(coll, doc) ==
    IF \E i \in 1..Len(coll) : coll[i].evidence_path = doc.evidence_path
    THEN LET k == CHOOSE i \in 1..Len(coll) : coll[i].evidence_path = doc.evidence_path
         IN  [coll EXCEPT ![k] = [_id            |-> coll[k]._id,
                                  detection_type |-> doc.detection_type,
                                  confidence     |-> doc.confidence,
                                  location_id    |-> doc.location_id,
                                  timestamp      |-> doc.timestamp,
                                  status         |-> doc.status,
                                  evidence_path  |-> doc.evidence_path]]
    ELSE Append(coll, [_id            |-> Len(coll) + 1,
                       detection_type |-> doc.detection_type,
                       confidence     |-> doc.confidence,
                       location_id    |-> doc.location_id,
                       timestamp      |-> doc.timestamp,
                       status         |-> doc.status,
                       evidence_path  |-> doc.evidence_path])

\* insert_one: the store assigns _id and appends the document
InsertOne(coll, doc) ==
    Append(coll, [_id            |-> Len(coll) + 1,
                  detection_type |-> doc.detection_type,
                  confidence     |-> doc.confidence,
                  location_id    |-> doc.location_id,
                  timestamp      |-> doc.timestamp,
                  status         |-> doc.status,
                  evidence_path  |-> doc.evidence_path])

\* the JSON body of the 201 response
CreatedBody(id, loc, res) ==
    [status         |-> 201,
     success        |-> TRUE,
     incident_id    |-> id,
     location       |-> loc,
     detection_type |-> res.detection_type,
     confidence     |-> res.confidence,
     is_alert       |-> res.is_alert]

---------------------------------------------------------------------------
(* The four aggregation pipelines of get_reports *)

RECURSIVE SumConfidence(_)
SumConfidence(coll) ==
    IF coll = <<>> THEN 0 ELSE Head(coll).confidence + SumConfidence(Tail(coll))

RECURSIVE SumError(_)
SumError(coll) ==
    IF coll = <<>> THEN 0
    ELSE DoubleError(Head(coll).confidence) + SumError(Tail(coll))

\* {"$avg": "$confidence"}: the mean of the stored doubles, itself a double
Avg(coll) ==
    [sum   |-> SumConfidence(coll),
     count |-> Len(coll),
     side  |-> AvgSide(SumConfidence(coll), Len(coll), SumError(coll))]

\* variant: the $in list lacks "Graffiti"
InAlertListNoGraffiti(detection_type) ==
    detection_type \in {"Overflowing Bin", "Spill Detected"}

\* {"$in": ["$detection_type", [...]]}
InAlertList(detection_type) == detection_type \in Range(AlertList)

\* variant: the two $sum accumulators are swapped
SummaryPipelineSwapped(coll) ==
    IF coll = <<>> THEN <<>>
    ELSE << [_id             |-> None,
             totalDetections |-> Cardinality({i \in 1..Len(coll) :
                                     coll[i].detection_type \in Range(AlertList)}),
             avgConfidence   |-> Avg(coll),
             totalAlerts     |-> Len(coll)] >>

\* summary_pipeline: one group with _id None; no group on an empty collection.
SummaryPipeline(coll) ==
    IF coll = <<>> THEN <<>>
    ELSE << [_id             |-> None,
             totalDetections |-> Len(coll),
             avgConfidence   |-> Avg(coll),
             totalAlerts     |-> Cardinality({i \in 1..Len(coll) :
                                     InAlertList(coll[i].detection_type)})] >>

\* lines 141-149: the three summary values from summary_result
SummaryView(summary_result) ==
    IF summary_result # <<>>
    THEN LET summary == summary_result[1]
             avg_confidence_val == summary.avgConfidence
         IN  [total_detections |-> summary.totalDetections,
              avg_confidence   |-> IF avg_confidence_val.sum # 0
                                   THEN Percent(RoundAvg(avg_confidence_val))
                                   ELSE ZeroPercent,
              total_alerts     |-> summary.totalAlerts]
    ELSE [total_detections |-> 0, avg_confidence |-> ZeroPercent, total_alerts |-> 0]

\* variant: one group per label of the label list, present or not
TypesPipelineZeroFilled(coll) ==
    { [_id   |-> t,
       count |-> Cardinality({i \in 1..Len(coll) : coll[i].detection_type = t})] :
      t \in Range(types) }

\* types_pipeline: one group per distinct detection_type
TypesPipeline(coll) ==
    { [_id   |-> t,
       count |-> Cardinality({i \in 1..Len(coll) : coll[i].detection_type = t})] :
      t \in {coll[i].detection_type : i \in 1..Len(coll)} }

\* {item['_id']: item['count'] for item in types_raw}
DetectionTypes(types_raw) ==
    [t \in {item._id : item \in types_raw} |->
        (CHOOSE item \in types_raw : item._id = t).count]

\* hourly_pipeline: one group per $hour, sorted by _id ascending
RECURSIVE SortHours(_, _)
SortHours(hours, coll) ==
    IF hours = {} THEN <<>>
    ELSE LET h == CHOOSE x \in hours : \A y \in hours : x <= y
         IN  <<[_id   |-> h,
                count |-> Cardinality({i \in 1..Len(coll) :
                                          Hour(coll[i].timestamp) = h})]>>
             \o SortHours(hours \ {h}, coll)

HourlyPipeline(coll) ==
    SortHours({Hour(coll[i].timestamp) : i \in 1..Len(coll)}, coll)

\* variant: 0 < hour < 24
HourInRangeAboveZero(hour) == 0 < hour /\ hour < HoursPerDay

\* if 0 <= hour < 24
HourInRange(hour) == 0 <= hour /\ hour < HoursPerDay

\* the loop over hourly_raw, starting from [0] * 24 (slot h is element h + 1)
RECURSIVE HourlyFill(_, _)
HourlyFill(hourly_raw, data) ==
    IF hourly_raw = <<>> THEN data
    ELSE LET item == Head(hourly_raw)
             hour == item._id
         IN  HourlyFill(Tail(hourly_raw),
                        IF HourInRange(hour)
                        THEN [data EXCEPT ![hour + 1] = item.count]
                        ELSE data)

HourlyData(hourly_raw) == HourlyFill(hourly_raw, [h \in 1..HoursPerDay |-> 0])

\* the heatmap pipeline: one group per location_id, sorted by issueCount
\* descending; the order among equal counts is the store's choice, so the
\* result is any of the orders the sort allows
LocationGroups(coll) ==
    { [_id        |-> l,
       issueCount |-> Cardinality({i \in 1..Len(coll) : coll[i].location_id = l})] :
      l \in {coll[i].location_id : i \in 1..Len(coll)} }

SortedDescending(s) ==
    \A i, j \in 1..Len(s) : i < j => s[i].issueCount >= s[j].issueCount

HeatmapPipeline(coll) ==
    LET groups == LocationGroups(coll)
    IN  { s \in [1..Cardinality(groups) -> groups] :
            /\ \A i, j \in 1..Cardinality(groups) : i # j => s[i] # s[j]
            /\ SortedDescending(s) }

\* variant: no floor at 0
ScoreNoFloor(issueCount) == 100 - issueCount * 5

\* max(0, 100 - item['issueCount'] * 5)
Score(issueCount) == Max(0, 100 - issueCount * 5)

HeatmapScores(data) ==
    [i \in 1..Len(data) |-> [location |-> data[i]._id,
                             score    |-> Score(data[i].issueCount)]]

---------------------------------------------------------------------------
(* Initial state: the module has been imported, no request was served *)

DetectLocalsUnset ==
    /\ location_id = <<>>
    /\ filepath = <<>>
    /\ results = <<>>
    /\ incident_id = NoValue

ReportLocalsUnset ==
    /\ total_detections = 0
    /\ avg_confidence = NoValue
    /\ total_alerts = 0
    /\ detection_types = <<>>
    /\ hourly_data = <<>>
    /\ heatmap_data = <<>>
    /\ heatmap_scores = <<>>

InitWith(coll) ==
    /\ mongoUp \in BOOLEAN
    /\ incidents_collection = get_mongo_collection(mongoUp)
    /\ collection = coll
    /\ files = {}
    /\ now = StartTime
    /\ dpc = "idle"
    /\ has_image = FALSE
    /\ DetectLocalsUnset
    /\ dresponse = [status |-> 0]
    /\ created = <<>>
    /\ rpc = "idle"
    /\ ReportLocalsUnset
    /\ rstatus = 0
    /\ passes = <<>>
    /\ home_status = 0

Init == InitWith(<<>>)

---------------------------------------------------------------------------
(* Environment *)

\* MongoDB becomes unreachable, or reachable again
MongoFlip ==
    /\ mongoUp' = ~mongoUp
    /\ UNCHANGED <<incidents_collection, now, storeVars, detectVars, reportVars,
                   home_status>>

\* the server clock advances by one second
Tick ==
    /\ now < StartTime + MaxTicks
    /\ now' = now + 1
    /\ UNCHANGED <<incidents_collection, mongoUp, storeVars, detectVars, reportVars,
                   home_status>>

---------------------------------------------------------------------------
(* GET / *)

home ==
    /\ home_status' = IF incidents_collection = None THEN 500 ELSE 200
    /\ UNCHANGED <<incidents_collection, envVars, storeVars, detectVars, reportVars>>

---------------------------------------------------------------------------
(* POST /api/detect_and_report *)

\* the request returns: its frame (the locals) is gone
DetectReturn ==
    /\ dpc' = "done"
    /\ has_image' = FALSE
    /\ location_id' = <<>>
    /\ filepath' = <<>>
    /\ results' = <<>>
    /\ incident_id' = NoValue

\* a request arrives; lines 69-76: the two early returns, then the form field
DetectStart ==
    /\ dpc \in {"idle", "done"}
    /\ Len(collection) < MaxDocs
    /\ \E image \in BOOLEAN, values \in FormValues :
          LET code == DetectGuard(incidents_collection, image)
          IN  IF code # 0
              THEN /\ dresponse' = [status |-> code, image |-> image]
                   /\ DetectReturn
              ELSE /\ dresponse' = [status |-> 0]
                   /\ has_image' = image
                   /\ location_id' = FormGet(values)
                   /\ dpc' = "save"
                   /\ UNCHANGED <<filepath, results, incident_id>>
    /\ UNCHANGED <<incidents_collection, envVars, storeVars, created, reportVars,
                   home_status>>

\* lines 79-81: the evidence file is written under the generated name.
\* file.save opens the path for writing: a file name longer than NAME_MAX
\* makes it raise before anything is written, nothing catches the exception
\* and the framework answers 500.
DetectSave ==
    /\ dpc = "save"
    /\ LET filename == Filename(location_id, now)
       IN  IF Len(filename) > NAME_MAX
           THEN /\ dresponse' = [status |-> 500, message |-> "Internal Server Error"]
                /\ DetectReturn
                /\ UNCHANGED files
           ELSE /\ filepath' = PathJoin(UploadFolder, filename)
                /\ files' = files \cup {filepath'}
                /\ dpc' = "infer"
                /\ UNCHANGED <<has_image, location_id, results, incident_id,
                               dresponse>>
    /\ UNCHANGED <<incidents_collection, envVars, collection, created, reportVars,
                   home_status>>

\* lines 84-85: classification (the simulated one never raises)
DetectInfer ==
    /\ dpc = "infer"
    /\ \E i \in 1..Len(types), raw \in RawConfidences :
          results' = run_ai_inference(i, raw)
    /\ dpc' = "insert"
    /\ UNCHANGED <<incidents_collection, envVars, storeVars, has_image, location_id,
                   filepath, incident_id, dresponse, created, reportVars, home_status>>

\* lines 90-101: the insert succeeds
DetectInsert ==
    /\ dpc = "insert"
    /\ mongoUp
    /\ collection' = InsertOne(collection,
                               IncidentDoc(results, location_id, now, filepath))
    /\ incident_id' = ToString(collection'[Len(collection')]._id)
    /\ dpc' = "respond"
    /\ UNCHANGED <<incidents_collection, envVars, files, has_image, location_id,
                   filepath, results, dresponse, created, reportVars, home_status>>

\* lines 103-104: insert_one raises
DetectInsertFail ==
    /\ dpc = "insert"
    /\ ~mongoUp
    /\ dresponse' = [status |-> 500, message |-> "MongoDB logging failed"]
    /\ DetectReturn
    /\ UNCHANGED <<incidents_collection, envVars, storeVars, created, reportVars,
                   home_status>>

\* lines 107-114: the 201 response
DetectRespond ==
    /\ dpc = "respond"
    /\ dresponse' = CreatedBody(incident_id, location_id, results)
    /\ created' = Append(created, dresponse')
    /\ DetectReturn
    /\ UNCHANGED <<incidents_collection, envVars, storeVars, reportVars, home_status>>

---------------------------------------------------------------------------
(* GET /api/get_reports *)

\* a request arrives; lines 119-120
ReportStart ==
    /\ rpc \in {"idle", "done"}
    /\ total_detections' = 0
    /\ avg_confidence' = NoValue
    /\ total_alerts' = 0
    /\ detection_types' = <<>>
    /\ hourly_data' = <<>>
    /\ heatmap_data' = <<>>
    /\ heatmap_scores' = <<>>
    /\ passes' = <<>>
    /\ LET code == ReportGuard(incidents_collection)
       IN  IF code # 0
           THEN rstatus' = code /\ rpc' = "done"
           ELSE rstatus' = 0 /\ rpc' = "summary"
    /\ UNCHANGED <<incidents_collection, envVars, storeVars, detectVars, home_status>>

\* lines 139-149
SummaryPass ==
    /\ rpc = "summary"
    /\ mongoUp
    /\ LET view == SummaryView(SummaryPipeline(collection))
       IN  /\ total_detections' = view.total_detections
           /\ avg_confidence' = view.avg_confidence
           /\ total_alerts' = view.total_alerts
    /\ passes' = Append(passes, Len(collection))
    /\ rpc' = "types"
    /\ UNCHANGED <<incidents_collection, envVars, storeVars, detectVars,
                   detection_types, hourly_data, heatmap_data, heatmap_scores,
                   rstatus, home_status>>

\* lines 155-156
TypesPass ==
    /\ rpc = "types"
    /\ mongoUp
    /\ detection_types' = DetectionTypes(TypesPipeline(collection))
    /\ passes' = Append(passes, Len(collection))
    /\ rpc' = "hourly"
    /\ UNCHANGED <<incidents_collection, envVars, storeVars, detectVars,
                   total_detections, avg_confidence, total_alerts,
                   hourly_data, heatmap_data, heatmap_scores, rstatus, home_status>>

\* lines 166-171
HourlyPass ==
    /\ rpc = "hourly"
    /\ mongoUp
    /\ hourly_data' = HourlyData(HourlyPipeline(collection))
    /\ passes' = Append(passes, Len(collection))
    /\ rpc' = "heatmap"
    /\ UNCHANGED <<incidents_collection, envVars, storeVars, detectVars,
                   total_detections, avg_confidence, total_alerts,
                   detection_types, heatmap_data, heatmap_scores, rstatus,
                   home_status>>

\* lines 174-192: the last pass, the scores and the 200 response
HeatmapPass ==
    /\ rpc = "heatmap"
    /\ mongoUp
    /\ \E data \in HeatmapPipeline(collection) :
          /\ heatmap_data' = data
          /\ heatmap_scores' = HeatmapScores(data)
    /\ passes' = Append(passes, Len(collection))
    /\ rstatus' = 200
    /\ rpc' = "done"
    /\ UNCHANGED <<incidents_collection, envVars, storeVars, detectVars,
                   total_detections, avg_confidence, total_alerts,
                   detection_types, hourly_data, home_status>>

\* aggregate() raises while MongoDB is unreachable; get_reports does not catch
\* it, its frame is dropped and the framework answers 500
ReportFail ==
    /\ rpc \in {"summary", "types", "hourly", "heatmap"}
    /\ ~mongoUp
    /\ rstatus' = 500
    /\ rpc' = "done"
    /\ total_detections' = 0
    /\ avg_confidence' = NoValue
    /\ total_alerts' = 0
    /\ detection_types' = <<>>
    /\ hourly_data' = <<>>
    /\ heatmap_data' = <<>>
    /\ heatmap_scores' = <<>>
    /\ UNCHANGED <<incidents_collection, envVars, storeVars, detectVars, passes,
                   home_status>>

---------------------------------------------------------------------------
(* Specifications *)

Next ==
    \/ MongoFlip
    \/ Tick
    \/ home
    \/ DetectStart
    \/ DetectSave
    \/ DetectInfer
    \/ DetectInsert
    \/ DetectInsertFail
    \/ DetectRespond
    \/ ReportStart
    \/ SummaryPass
    \/ TypesPass
    \/ HourlyPass
    \/ HeatmapPass
    \/ ReportFail

Spec == Init /\ [][Next]_vars

\* Ingestion alone: get_reports and home write nothing that detect_and_report
\* reads, so the ingestion behaviours of Spec are those of SpecIngest
NextIngest ==
    \/ MongoFlip
    \/ Tick
    \/ DetectStart
    \/ DetectSave
    \/ DetectInfer
    \/ DetectInsert
    \/ DetectInsertFail
    \/ DetectRespond

SpecIngest == Init /\ [][NextIngest]_vars

\* Aggregation alone, over a collection that already holds incidents when the
\* process starts.  Document i of a pre-existing collection cycles through the
\* labels and three confidences (two documents have the mean 92.65, which
\* $avg returns as a double above it); the timestamps spread unevenly over the
\* hours of the day (some hours get several documents, some none).
SeedConfidences == <<854, 853, 1000>>
SeedStep == 3600 + 1
SeedCounts == {0, 1, 4, 19, 20, MaxSeed}

SeedDoc(i, loc) ==
    LET t == StartTime + (((i * (i + 1)) \div 2) - 1) * SeedStep
    IN  [_id            |-> i,
         detection_type |-> types[(i % Len(types)) + 1],
         confidence     |-> SeedConfidences[(i % Len(SeedConfidences)) + 1],
         location_id    |-> loc,
         timestamp      |-> t,
         status         |-> "Unresolved",
         evidence_path  |-> PathJoin(UploadFolder, Filename(loc, t))]

SeedCollection(a, b, u) ==
    [i \in 1..(a + b + u) |->
        SeedDoc(i, IF i <= a THEN Str("Zone 1")
                   ELSE IF i <= a + b THEN Str("Zone_1")
                   ELSE UnknownZone)]

InitAgg == \E a, b, u \in SeedCounts : InitWith(SeedCollection(a, b, u))

NextAgg ==
    \/ MongoFlip
    \/ ReportStart
    \/ SummaryPass
    \/ TypesPass
    \/ HourlyPass
    \/ HeatmapPass
    \/ ReportFail

SpecAgg == InitAgg /\ [][NextAgg]_vars

---------------------------------------------------------------------------
(* Vocabulary of the properties *)

\* the alert types of the glossary
AlertTypes == {"Overflowing Bin", "Spill Detected", "Graffiti"}

RECURSIVE SumSeq(_)
SumSeq(s) == IF s = <<>> THEN 0 ELSE Head(s) + SumSeq(Tail(s))

RECURSIVE SumOver(_, _)
SumOver(f, keys) ==
    IF keys = {} THEN 0
    ELSE LET k == CHOOSE x \in keys : TRUE
         IN  f[k] + SumOver(f, keys \ {k})

RECURSIVE NumWith(_, _, _)
\* number of documents of coll whose field has the value
NumWith(coll, field, value) ==
    IF coll = <<>> THEN 0
    ELSE (IF Head(coll)[field] = value THEN 1 ELSE 0) + NumWith(Tail(coll), field, value)

RECURSIVE NumAtHour(_, _)
NumAtHour(coll, h) ==
    IF coll = <<>> THEN 0
    ELSE (IF (Head(coll).timestamp \div 3600) % 24 = h THEN 1 ELSE 0)
         + NumAtHour(Tail(coll), h)

IsPrefix(s, t) == Len(s) <= Len(t) /\ \A i \in 1..Len(s) : s[i] = t[i]

Answered200 == rpc = "done" /\ rstatus = 200

NoIngestionInFlight == dpc \in {"idle", "done"}

\* the step of get_reports that runs the summary pipeline
SummaryStep == rpc = "summary" /\ rpc' = "types"

\* a step of get_reports, of home, of detect_and_report
ReportStep == reportVars' # reportVars
HomeStep   == home_status' # home_status
DetectStep == detectVars' # detectVars

---------------------------------------------------------------------------
(* C1 *)

\* C1: starting from an empty collection, the collection holds one document
\* per 201 response (plus the one of a request that has inserted and not yet
\* answered), so requests answered 400, 500 or 503 add none; and a summary
\* pass that runs while no ingestion is in flight computes totalDetections
\* equal to the number of 201 responses, which the 200 response then carries.
C1_TotalDetectionsIsCreated ==
    /\ [](Len(collection) = Len(created) + (IF dpc = "respond" THEN 1 ELSE 0))
    /\ [][(SummaryStep /\ NoIngestionInFlight)
             => total_detections' = Len(created)]_vars
    /\ [][(ReportStep /\ rstatus' = 200)
             => total_detections' = total_detections]_vars

\* two ingestions answered 201, one answered 500 (its evidence file is left
\* over), and a report that counted the two
C1_Witness ==
    /\ Answered200
    /\ NoIngestionInFlight
    /\ Len(created) = 2
    /\ total_detections = 2
    /\ Cardinality(files) > Cardinality({collection[i].evidence_path :
                                            i \in 1..Len(collection)})

---------------------------------------------------------------------------
(* C2 *)

ViewsConsistent ==
    /\ total_detections = SumOver(detection_types, DOMAIN detection_types)
    /\ total_detections = SumSeq(hourly_data)
    /\ total_detections = SumSeq([i \in 1..Len(heatmap_data) |->
                                     heatmap_data[i].issueCount])

\* C2 as stated: the four views of every 200 response are mutually consistent,
\* also when inserts interleave with the request
C2_AlwaysConsistent == Answered200 => ViewsConsistent

\* C2, amended: the four views of a 200 response are mutually consistent
\* whenever no insert was committed between the first and the last
\* aggregation pass of the request
C2_ConsistentWithoutInterleavedInsert ==
    (Answered200 /\ passes[1] = passes[4]) => ViewsConsistent

\* a report over two incidents of different hours and locations, with no
\* insert between its passes
C2_Witness ==
    /\ Answered200
    /\ passes = <<2, 2, 2, 2>>
    /\ Len(heatmap_data) = 2
    /\ hourly_data[1] = 1
    /\ hourly_data[24] = 1

---------------------------------------------------------------------------
(* C5 *)

\* C5 as stated: a request that arrives while MongoDB is unreachable is
\* answered 503 at once, whether or not the ping at start-up succeeded (for
\* detect_and_report: a request that is not turned down for its missing image)
C5_UnreachableAtRequestGives503 ==
    /\ [][(rpc \in {"idle", "done"} /\ ReportStep /\ ~mongoUp)
             => (rpc' = "done" /\ rstatus' = 503)]_vars
    /\ [][(dpc \in {"idle", "done"} /\ DetectStep /\ ~mongoUp
               /\ dresponse'.status # 400)
             => (dpc' = "done" /\ dresponse'.status = 503)]_vars

\* C5, amended: when MongoDB was unreachable at process start (the handle is
\* None), every get_reports is answered 503 with no aggregation pass run and
\* every detect_and_report is answered 503 with no evidence file written and
\* no document inserted, whatever MongoDB does later
C5_NoHandleGives503 ==
    incidents_collection = None =>
        /\ rpc \in {"idle", "done"}
        /\ rpc = "done" => (rstatus = 503 /\ passes = <<>>)
        /\ dpc \in {"idle", "done"}
        /\ dpc = "done" => dresponse.status = 503
        /\ collection = <<>>
        /\ files = {}

\* no handle; both endpoints have answered, the ingestion request carried an
\* image, and MongoDB is reachable again
C5_Witness ==
    /\ incidents_collection = None
    /\ mongoUp
    /\ rpc = "done" /\ rstatus = 503
    /\ dpc = "done" /\ dresponse.status = 503 /\ dresponse.image

---------------------------------------------------------------------------
(* C6 *)

\* C6: every 201 response has is_alert true exactly for the three alert
\* types, and a summary pass that runs while no ingestion is in flight
\* computes totalAlerts equal to the number of 201 responses with is_alert
\* true, which the 200 response then carries
C6_AlertsAgree ==
    /\ [](\A i \in 1..Len(created) :
             created[i].is_alert <=> created[i].detection_type \in AlertTypes)
    /\ [][(SummaryStep /\ NoIngestionInFlight)
             => total_alerts' = Cardinality({i \in 1..Len(created) :
                                                created[i].is_alert})]_vars
    /\ [][(ReportStep /\ rstatus' = 200) => total_alerts' = total_alerts]_vars

\* a report over one alert incident (Graffiti) and one that is none
C6_Witness ==
    /\ Answered200
    /\ NoIngestionInFlight
    /\ Len(created) = 2
    /\ total_alerts = 1
    /\ \E i \in 1..2 : created[i].detection_type = "Graffiti" /\ created[i].is_alert

---------------------------------------------------------------------------
(* C10 *)

\* C10: every step keeps the documents already in the collection, with all
\* their fields, and the files already in evidence storage; the steps of
\* get_reports and of home change neither the collection nor the files
C10_AppendOnly ==
    [][/\ IsPrefix(collection, collection')
       /\ files \subseteq files'
       /\ (ReportStep \/ HomeStep) => UNCHANGED <<collection, files>>]_vars

\* two incidents with the same evidence path, a report and a home request
\* answered
C10_Witness ==
    /\ Len(collection) = 2
    /\ collection[1].evidence_path = collection[2].evidence_path
    /\ Answered200
    /\ home_status = 200

---------------------------------------------------------------------------
(* C4 *)

\* an ingestion request without the image field has been answered
NoImageAnswered ==
    /\ dpc = "done"
    /\ dresponse.status \in {400, 503}
    /\ ~dresponse.image

\* the step that answers an ingestion request without the image field
NoImageStep ==
    /\ DetectStep
    /\ dresponse'.status \in {400, 503}
    /\ ~dresponse'.image

\* C4 as stated: every request without the image field is answered 400,
\* inserts nothing and writes no file, whatever the state of storage
C4_NoImageAlways400 ==
    /\ [](NoImageAnswered => dresponse.status = 400)
    /\ [][NoImageStep => UNCHANGED <<collection, files>>]_vars

\* C4, amended: a request without the image field is answered 400 when the
\* process holds a storage handle and 503 when it holds none (the handle is
\* checked first); either way it inserts nothing and writes no file
C4_NoImage400Or503 ==
    /\ [](NoImageAnswered =>
             dresponse.status = (IF incidents_collection = None THEN 503 ELSE 400))
    /\ [][NoImageStep => UNCHANGED <<collection, files>>]_vars

\* a request without image answered 400 while an earlier incident and its
\* file are in place and MongoDB is unreachable
C4_Witness ==
    /\ NoImageAnswered
    /\ dresponse.status = 400
    /\ ~mongoUp
    /\ Len(collection) = 1
    /\ Cardinality(files) = 1

---------------------------------------------------------------------------
(* C9 *)

InsertStep == dpc = "insert" /\ dpc' # "insert"

InsertSucceeded ==
    /\ dpc' = "respond"
    /\ Len(collection') = Len(collection) + 1
    /\ IsPrefix(collection, collection')
    /\ collection'[Len(collection')].status = "Unresolved"
    /\ collection'[Len(collection')].evidence_path = filepath
    /\ filepath \in files'

InsertFailed ==
    /\ dpc' = "done"
    /\ dresponse'.status = 500
    /\ dresponse'.message = "MongoDB logging failed"
    /\ collection' = collection
    /\ files' = files
    /\ filepath \in files'

\* C9: the evidence file is in storage from the save step on, which comes
\* before classification and insert (a save that raises ends the request with
\* 500, nothing classified, inserted or written); the one insert attempt either adds
\* exactly one document, with status "Unresolved" and the path of that file,
\* or ends the request with 500, the collection unchanged and the file left
\* in place; 201 is answered only after the insert, and adds nothing more
C9_SaveThenSingleInsert ==
    /\ [](dpc \in {"infer", "insert", "respond"} => filepath \in files)
    /\ [][(dpc = "save" /\ DetectStep)
             => \/ (dpc' = "infer" /\ filepath' \in files' /\ results' = <<>>
                    /\ collection' = collection)
                \/ (dpc' = "done" /\ dresponse'.status = 500
                    /\ UNCHANGED <<collection, files>>)]_vars
    /\ [][InsertStep => (InsertSucceeded \/ InsertFailed)]_vars
    /\ [][(dpc = "respond" /\ DetectStep)
             => (dpc' = "done" /\ dresponse'.status = 201
                 /\ UNCHANGED <<collection, files>>)]_vars

\* one incident stored with its file, and a later request answered 500 whose
\* file is in storage with no document pointing at it
C9_Witness ==
    /\ dpc = "done"
    /\ dresponse.status = 500
    /\ dresponse.message = "MongoDB logging failed"
    /\ Len(collection) = 1
    /\ collection[1].evidence_path \in files
    /\ \E f \in files : f # collection[1].evidence_path

---------------------------------------------------------------------------
(* C3 *)

\* C3: the hourlyData of a 200 response has 24 entries, entry h (from 0) is
\* the number of stored incidents whose timestamp has hour h, none is
\* negative, and they add up to the number of incidents
C3_HourlyHistogram ==
    Answered200 =>
        /\ Len(hourly_data) = 24
        /\ \A h \in 0..23 : /\ hourly_data[h + 1] \in Nat
                            /\ hourly_data[h + 1] = NumAtHour(collection, h)
        /\ SumSeq(hourly_data) = Len(collection)

\* a report over at least 24 incidents with incidents at hour 0 and at hour
\* 23, an hour with several incidents and an hour with none
C3_Witness ==
    /\ Answered200
    /\ Len(collection) >= 24
    /\ hourly_data[1] >= 1
    /\ hourly_data[24] >= 1
    /\ \E h \in 1..24 : hourly_data[h] >= 2
    /\ \E h \in 1..24 : hourly_data[h] = 0

---------------------------------------------------------------------------
(* C7 *)

LocationsOf(coll) == {coll[i].location_id : i \in 1..Len(coll)}

IssuesAt(i) == NumWith(collection, "location_id", heatmap_scores[i].location)

\* C7: the heatmapData of a 200 response has one entry per location of the
\* collection, each with score max(0, 100 - 5 * issueCount) for the number
\* of incidents at its location, in 0..95 and 0 from 20 incidents on; the
\* entries come in non-increasing order of issueCount
C7_Heatmap ==
    Answered200 =>
        /\ Len(heatmap_scores) = Cardinality(LocationsOf(collection))
        /\ {heatmap_scores[i].location : i \in 1..Len(heatmap_scores)}
              = LocationsOf(collection)
        /\ \A i \in 1..Len(heatmap_scores) :
              /\ heatmap_scores[i].score
                    = (IF 100 - 5 * IssuesAt(i) > 0 THEN 100 - 5 * IssuesAt(i) ELSE 0)
              /\ heatmap_scores[i].score \in 0..95
              /\ IssuesAt(i) >= 20 => heatmap_scores[i].score = 0
        /\ \A i, j \in 1..Len(heatmap_scores) : i < j => IssuesAt(i) >= IssuesAt(j)

\* three locations with more than 20, exactly 4 and exactly 1 incidents
C7_Witness ==
    /\ Answered200
    /\ Len(heatmap_scores) = 3
    /\ IssuesAt(1) > 20 /\ heatmap_scores[1].score = 0
    /\ IssuesAt(2) = 4 /\ heatmap_scores[2].score = 80
    /\ IssuesAt(3) = 1 /\ heatmap_scores[3].score = 95

---------------------------------------------------------------------------
(* C8 *)

TypesOf(coll) == {coll[i].detection_type : i \in 1..Len(coll)}

\* C8: over an empty collection a 200 response has totalDetections 0,
\* totalAlerts 0, avgConfidence "0%", no detectionTypes entry, 24 zeros and
\* no heatmap entry; over a non-empty one detectionTypes has exactly the
\* detection types present as keys, each with its number of incidents
C8_EmptyAndTypes ==
    Answered200 =>
        /\ collection = <<>> =>
              /\ total_detections = 0
              /\ total_alerts = 0
              /\ avg_confidence = "0%"
              /\ DOMAIN detection_types = {}
              /\ hourly_data = [h \in 1..24 |-> 0]
              /\ heatmap_scores = <<>>
        /\ collection # <<>> =>
              /\ DOMAIN detection_types = TypesOf(collection)
              /\ \A t \in DOMAIN detection_types :
                    /\ detection_types[t] = NumWith(collection, "detection_type", t)
                    /\ detection_types[t] > 0

\* a report over four incidents of four types, two types being absent
C8_Witness ==
    /\ Answered200
    /\ Len(collection) = 4
    /\ Cardinality(DOMAIN detection_types) = 4
    /\ avg_confidence # "0%"

====
